---- MODULE Spec2Model ----
(***************************************************************************)
(* PaperDigest: the polling job worker (worker.py), the cached synchronous *)
(* endpoint (main.py) and the marker-splitting reply parser both share.    *)
(*                                                                         *)
(* A string is a sequence of tokens.  A token is either one of the literal *)
(* markers the parsers split on, or a character of ordinary text ("a",     *)
(* "b") or a whitespace character (" ").  Ordinary text holds no '<' or    *)
(* '>', so no marker can straddle two tokens and str.split on a marker is  *)
(* exactly a split of the token sequence on that token.                    *)
(***************************************************************************)
EXTENDS Integers, Sequences, FiniteSets, TLC

VARIABLES
    message,      \* parser: the provider's reply text (response.text)
    parsed,       \* parser: outcome of worker.py's parsing lines, {} before
    parsedMain,   \* parser: outcome of main.py's parsing lines, {} before
    running,      \* worker: the worker processes started against the job table
    jobs,         \* worker: the job table, row i has id i
    pc,           \* worker: each processor's position in main/process_pending_job
    obj,          \* worker: each processor's job_to_process as its session loaded it
    text,         \* worker: each processor's extracted text (line 103)
    outcome,      \* worker: what the try block produced: ai_result or the exception
    GOOGLE_API_KEY, \* main.py: whether the environment configures the key
    analysis_cache, \* main.py: the dictionary, url -> AnalysisResponse (None: no key)
    rpc,          \* main.py: each request handler's position in analyze_paper
    rurl,         \* main.py: each handler's request_url
    rtext,        \* main.py: each handler's paper_text
    response,     \* main.py: what each handler's last request got, None while it runs
    orig,         \* history: per url, the first result stored for it
    prior,        \* history: per handler, orig of its url when its request arrived
    raced         \* history: per handler, whether its request missed while another
                  \* request for the same url had missed and not yet stored

parserVars == <<message, parsed, parsedMain>>
workerVars == <<running, jobs, pc, obj, text, outcome>>
cacheVars == <<GOOGLE_API_KEY, analysis_cache, rpc, rurl, rtext, response, orig, prior, raced>>

(***************************************************************************)
(* Optional[...] values: None is the empty set, a value v is {v}.          *)
(***************************************************************************)
None == {}
Some(v) == {v}
The(opt) == CHOOSE v \in opt : TRUE

(***************************************************************************)
(* Strings                                                                 *)
(***************************************************************************)
Whitespace == {" "}

Open(name) ==
    CASE name = "title" -> "<title>"
      [] name = "summary" -> "<summary>"
      [] name = "methodology" -> "<methodology>"
      [] name = "takeaways" -> "<takeaways>"
      [] name = "item" -> "<item>"

Close(name) ==
    CASE name = "title" -> "</title>"
      [] name = "summary" -> "</summary>"
      [] name = "methodology" -> "</methodology>"
      [] name = "takeaways" -> "</takeaways>"
      [] name = "item" -> "</item>"

Contains(s, tok) == \E i \in 1..Len(s) : s[i] = tok

FirstIndex(s, tok) == CHOOSE i \in 1..Len(s) : s[i] = tok /\ \A k \in 1..(i-1) : s[k] # tok

\* str.split(sep): the pieces between the occurrences of sep, never empty as a list
RECURSIVE Split(_, _)
Split(s, sep) ==
    IF ~Contains(s, sep) THEN <<s>>
    ELSE LET i == FirstIndex(s, sep)
         IN <<SubSeq(s, 1, i - 1)>> \o Split(SubSeq(s, i + 1, Len(s)), sep)

\* str.strip(): leading and trailing whitespace removed
RECURSIVE Strip(_)
Strip(s) ==
    IF s = <<>> THEN s
    ELSE IF Head(s) \in Whitespace THEN Strip(Tail(s))
    ELSE IF s[Len(s)] \in Whitespace THEN Strip(SubSeq(s, 1, Len(s) - 1))
    ELSE s

\* list[1:]
Rest(list) == SubSeq(list, 2, Len(list))

(***************************************************************************)
(* Outcomes of a call: a returned value or a raised exception              *)
(***************************************************************************)
Return(v) == [kind |-> "return", value |-> v]
Raise(exc, msg) == [kind |-> "raise", exc |-> exc, msg |-> msg]

\* message.split(open)[1]: subscript 1 of a one-element list raises IndexError
SplitHasSecond(s, open) == Len(Split(s, open)) >= 2

\* message.split(open)[1].split(close)[0]
Between(s, open, close) == Split(Split(s, open)[2], close)[1]

\* mutant: the fragment before the first <item> is not dropped
ItemList_KeepFirst(block) ==
    LET frags == Split(block, "<item>")
    IN [k \in 1..Len(frags) |-> Strip(Split(frags[k], "</item>")[1])]

\* [item.split("</item>")[0].strip() for item in takeaways_block.split("<item>")[1:]]
ItemList(block) ==
    LET frags == Rest(Split(block, "<item>"))
    IN [k \in 1..Len(frags) |-> Strip(Split(frags[k], "</item>")[1])]

\* worker.py lines 80-85
worker_parse(msg) ==
    IF \E n \in {"title", "summary", "methodology", "takeaways"} : ~SplitHasSecond(msg, Open(n))
    THEN Raise("IndexError", "list index out of range")
    ELSE Return([title       |-> Strip(Between(msg, "<title>", "</title>")),
                 summary     |-> Strip(Between(msg, "<summary>", "</summary>")),
                 takeaways   |-> ItemList(Between(msg, "<takeaways>", "</takeaways>")),
                 methodology |-> Strip(Between(msg, "<methodology>", "</methodology>"))])

\* main.py lines 109-115: any exception of the parsing lines is re-raised as a 500
main_parse(msg) ==
    IF \E n \in {"summary", "methodology", "takeaways"} : ~SplitHasSecond(msg, Open(n))
    THEN Raise("HTTPException", <<500, "An error occurred with the AI analysis", "list index out of range">>)
    ELSE Return([summary     |-> Strip(Between(msg, "<summary>", "</summary>")),
                 takeaways   |-> ItemList(Between(msg, "<takeaways>", "</takeaways>")),
                 methodology |-> Strip(Between(msg, "<methodology>", "</methodology>"))])

(***************************************************************************)
(* The replies the parser is run on.  A reply is generated section by      *)
(* section; every marker of every section may be missing, the title text   *)
(* may carry surrounding whitespace, the takeaways block holds up to       *)
(* MaxItems items (closed, padded with whitespace, or unclosed), the       *)
(* sections may be separated by whitespace, and a second title pair may    *)
(* follow the first.                                                       *)
(***************************************************************************)
MaxItems == 2

TitleTexts == {<<"a">>, <<" ", "a", " ">>, <<>>}
ItemVariants == {<<"<item>", "a", "</item>">>,
                 <<"<item>", " ", "b", " ", "</item>">>,
                 <<"<item>", "a">>}

Section(name, o, c, body) ==
    (IF o THEN <<Open(name)>> ELSE <<>>) \o body \o (IF c THEN <<Close(name)>> ELSE <<>>)

RECURSIVE Concat(_, _)
Concat(list, sep) ==
    IF list = <<>> THEN <<>> ELSE sep \o Head(list) \o Concat(Tail(list), sep)

ItemLists == UNION {[1..n -> ItemVariants] : n \in 0..MaxItems}

ReplySpace ==
    { (IF sp THEN <<" ">> ELSE <<>>)
      \o Section("title", f[1], f[2], tt)
      \o (IF sp THEN <<" ">> ELSE <<>>)
      \o Section("summary", f[3], f[4], <<"b">>)
      \o Section("methodology", f[5], f[6], <<"a", "b">>)
      \o Section("takeaways", f[7], f[8],
                 Concat(items, IF sp THEN <<" ">> ELSE <<>>) \o (IF sp THEN <<" ">> ELSE <<>>))
      \o (IF dup THEN <<"<title>", "b", "</title>">> ELSE <<>>) :
        f \in [1..8 -> BOOLEAN], tt \in TitleTexts, items \in ItemLists,
        sp \in BOOLEAN, dup \in BOOLEAN }

(***************************************************************************)
(* The network as get_text_from_url sees it: what a GET of the URL gives.  *)
(***************************************************************************)
Responses ==
    { [reached |-> FALSE, status |-> 0,   ctype |-> "",                isPdf |-> FALSE, text |-> <<>>],
      [reached |-> TRUE,  status |-> 404, ctype |-> "text/html",       isPdf |-> FALSE, text |-> <<>>],
      [reached |-> TRUE,  status |-> 200, ctype |-> "text/html",       isPdf |-> FALSE, text |-> <<>>],
      [reached |-> TRUE,  status |-> 200, ctype |-> "application/pdf", isPdf |-> FALSE, text |-> <<>>],
      [reached |-> TRUE,  status |-> 200, ctype |-> "application/pdf", isPdf |-> TRUE,  text |-> <<>>],
      [reached |-> TRUE,  status |-> 200, ctype |-> "application/pdf", isPdf |-> TRUE,  text |-> <<" ">>],
      [reached |-> TRUE,  status |-> 200, ctype |-> "application/octet-stream", isPdf |-> TRUE, text |-> <<"a">>],
      [reached |-> TRUE,  status |-> 200, ctype |-> "application/pdf", isPdf |-> TRUE,  text |-> <<"a">>] }

\* worker.py get_text_from_url: no content-type check, no empty-text check
worker_get_text_from_url(resp) ==
    IF ~resp.reached THEN Raise("ConnectError", "connection failed")
    ELSE IF resp.status >= 400 THEN Raise("HTTPStatusError", "client error")
    ELSE IF ~resp.isPdf THEN Raise("FileDataError", "Failed to open stream")
    ELSE Return(resp.text)

(***************************************************************************)
(* The provider: model.generate_content raises, or replies with a text.    *)
(***************************************************************************)
GoodReply ==
    <<"<title>", "a", "</title>", "<summary>", "b", "</summary>",
      "<methodology>", "a", "</methodology>",
      "<takeaways>", "<item>", "a", "</item>", "<item>", "b", "</item>", "</takeaways>">>

\* a reply cut off before the takeaways block
TruncatedReply ==
    <<"<title>", "a", "</title>", "<summary>", "b", "</summary>",
      "<methodology>", "a", "</methodology>">>

\* a complete reply whose takeaways block holds no item
NoItemReply ==
    <<"<title>", "a", "</title>", "<summary>", "b", "</summary>",
      "<methodology>", "a", "</methodology>", "<takeaways>", "</takeaways>">>

WorkerReplies == {GoodReply, TruncatedReply, NoItemReply}

ProviderOutcomes ==
    {Raise("GoogleAPIError", "quota exceeded")} \cup {Return(r) : r \in WorkerReplies}

\* worker.py get_summary_from_ai, lines 77-85, given what generate_content did
worker_get_summary_from_ai(provided) ==
    IF provided.kind = "raise" THEN provided ELSE worker_parse(provided.value)

(***************************************************************************)
(* The job table and the ORM session                                       *)
(***************************************************************************)
MaxJobs == 1

Urls == {"u1"}
Workers == {"w1", "w2", "w3"}
Terminal == {"COMPLETED", "FAILED"}

\* worker.py Job, lines 15-23, as the submitter inserts it
NewJob(id, url) ==
    [id |-> id, url |-> url, status |-> "PENDING", title |-> None, summary |-> None,
     takeaways |-> None, methodology |-> None, error_message |-> None]

\* "|||".join(list)
RECURSIVE Join(_)
Join(list) ==
    IF list = <<>> THEN <<>>
    ELSE IF Len(list) = 1 THEN list[1]
    ELSE list[1] \o <<"|||">> \o Join(Tail(list))

\* session.commit(): one UPDATE of the attributes whose value differs from the
\* one the session loaded, WHERE id = the object's id; the other columns keep
\* what the table holds
Flush(row, loaded, assigned) ==
    [a \in DOMAIN row |->
        IF a \in DOMAIN assigned /\ assigned[a] # loaded[a] THEN assigned[a] ELSE row[a]]

\* select(Job).where(Job.status == "PENDING") ... .first(): SQLite scans the
\* table in rowid order, so the first row is the one with the lowest id
PendingIds == {i \in 1..Len(jobs) : jobs[i].status = "PENDING"}
\* mutant: the select returns the PENDING row submitted last
FirstPending_Highest == CHOOSE i \in PendingIds : \A k \in PendingIds : i >= k

FirstPending == CHOOSE i \in PendingIds : \A k \in PendingIds : i <= k

\* lines 106-110 and 113-114: the attributes the try block or the handler assigns
Assigned(out) ==
    IF out.kind = "return"
    THEN [status      |-> "COMPLETED",
          title       |-> Some(out.value.title),
          summary     |-> Some(out.value.summary),
          methodology |-> Some(out.value.methodology),
          takeaways   |-> Some(Join(out.value.takeaways))]
    ELSE [status |-> "FAILED", error_message |-> Some(out.msg)]

\* mutant: the handler catches the HTTP errors only
Caught_HttpOnly(out) == out.kind = "raise" /\ out.exc = "HTTPStatusError"

\* line 111: except Exception catches every exception a step of the try block raises
Caught(out) == out.kind = "raise"

\* the table is created empty and the given worker processes are started on it
WorkerInit(started) ==
    /\ running = started
    /\ jobs = <<>>
    /\ pc = [w \in Workers |-> "poll"]
    /\ obj = [w \in Workers |-> None]
    /\ text = [w \in Workers |-> <<>>]
    /\ outcome = [w \in Workers |-> None]

\* the size the table may grow to: one job more where a single process runs
JobLimit == IF Cardinality(running) <= 1 THEN MaxJobs + 1 ELSE MaxJobs

\* the submitter: a new row, PENDING, content empty, the next id
Submit(url) ==
    /\ Len(jobs) < JobLimit
    /\ jobs' = Append(jobs, NewJob(Len(jobs) + 1, url))
    /\ UNCHANGED <<running, pc, obj, text, outcome>>
    /\ UNCHANGED <<parserVars, cacheVars>>

\* lines 90-94: the select; none pending: return, and main sleeps
Poll(w) ==
    /\ pc[w] = "poll"
    /\ IF PendingIds = {}
       THEN /\ pc' = [pc EXCEPT ![w] = "sleep"]
            /\ UNCHANGED obj
       ELSE /\ obj' = [obj EXCEPT ![w] = Some(jobs[FirstPending])]
            /\ pc' = [pc EXCEPT ![w] = "claim"]
    /\ UNCHANGED <<running, jobs, text, outcome>>
    /\ UNCHANGED <<parserVars, cacheVars>>

\* mutant: the claim marks every PENDING job
Claim_AllPending(w) ==
    /\ pc[w] = "claim"
    /\ jobs' = [i \in DOMAIN jobs |->
                  IF jobs[i].status = "PENDING" THEN [jobs[i] EXCEPT !.status = "PROCESSING"]
                  ELSE jobs[i]]
    /\ pc' = [pc EXCEPT ![w] = "refresh"]
    /\ UNCHANGED <<running, obj, text, outcome>>
    /\ UNCHANGED <<parserVars, cacheVars>>

\* lines 96-99: status = "PROCESSING", commit
Claim(w) ==
    /\ pc[w] = "claim"
    /\ LET loaded == The(obj[w])
           id == loaded.id
           assigned == [status |-> "PROCESSING"]
       IN jobs' = [jobs EXCEPT ![id] = Flush(jobs[id], loaded, assigned)]
    /\ pc' = [pc EXCEPT ![w] = "refresh"]
    /\ UNCHANGED <<running, obj, text, outcome>>
    /\ UNCHANGED <<parserVars, cacheVars>>

\* line 100: session.refresh reloads the row
Refresh(w) ==
    /\ pc[w] = "refresh"
    /\ obj' = [obj EXCEPT ![w] = Some(jobs[The(obj[w]).id])]
    /\ pc' = [pc EXCEPT ![w] = "extract"]
    /\ UNCHANGED <<running, jobs, text, outcome>>
    /\ UNCHANGED <<parserVars, cacheVars>>

\* line 103: get_text_from_url(job_to_process.url)
Extract(w) ==
    /\ pc[w] = "extract"
    /\ \E resp \in Responses :
         LET out == worker_get_text_from_url(resp)
         IN IF out.kind = "return"
            THEN /\ text' = [text EXCEPT ![w] = out.value]
                 /\ pc' = [pc EXCEPT ![w] = "summarize"]
                 /\ UNCHANGED outcome
            ELSE /\ outcome' = [outcome EXCEPT ![w] = Some(out)]
                 /\ pc' = [pc EXCEPT ![w] = "except"]
                 /\ UNCHANGED text
    /\ UNCHANGED <<running, jobs, obj>>
    /\ UNCHANGED <<parserVars, cacheVars>>

\* line 104: get_summary_from_ai(text): the provider call and the parsing; the
\* text is passed to the call and not read again
Summarize(w) ==
    /\ pc[w] = "summarize"
    /\ \E provided \in ProviderOutcomes :
         LET out == worker_get_summary_from_ai(provided)
         IN /\ outcome' = [outcome EXCEPT ![w] = Some(out)]
            /\ pc' = [pc EXCEPT ![w] = IF out.kind = "return" THEN "complete" ELSE "except"]
    /\ text' = [text EXCEPT ![w] = <<>>]
    /\ UNCHANGED <<running, jobs, obj>>
    /\ UNCHANGED <<parserVars, cacheVars>>

\* mutant: the terminal UPDATE has no WHERE clause and writes every row
Finish_EveryRow(w) ==
    /\ pc[w] \in {"complete", "except"}
    /\ LET out == The(outcome[w])
           loaded == The(obj[w])
       IN IF pc[w] = "except" /\ ~Caught(out)
          THEN /\ pc' = [pc EXCEPT ![w] = "crashed"]
               /\ UNCHANGED jobs
          ELSE /\ jobs' = [i \in DOMAIN jobs |-> Flush(jobs[i], loaded, Assigned(out))]
               /\ pc' = [pc EXCEPT ![w] = "sleep"]
    /\ obj' = [obj EXCEPT ![w] = None]
    /\ text' = [text EXCEPT ![w] = <<>>]
    /\ outcome' = [outcome EXCEPT ![w] = None]
    /\ UNCHANGED running
    /\ UNCHANGED <<parserVars, cacheVars>>

\* lines 106-110 or 111-114, then 116-118: the terminal write; back in main, sleep
Finish(w) ==
    /\ pc[w] \in {"complete", "except"}
    /\ LET out == The(outcome[w])
           loaded == The(obj[w])
           id == loaded.id
       IN IF pc[w] = "except" /\ ~Caught(out)
          THEN /\ pc' = [pc EXCEPT ![w] = "crashed"]
               /\ UNCHANGED jobs
          ELSE /\ jobs' = [jobs EXCEPT ![id] = Flush(jobs[id], loaded, Assigned(out))]
               /\ pc' = [pc EXCEPT ![w] = "sleep"]
    /\ obj' = [obj EXCEPT ![w] = None]
    /\ text' = [text EXCEPT ![w] = <<>>]
    /\ outcome' = [outcome EXCEPT ![w] = None]
    /\ UNCHANGED running
    /\ UNCHANGED <<parserVars, cacheVars>>

\* lines 123-125: time.sleep(5) ends, the loop polls again
Wake(w) ==
    /\ pc[w] = "sleep"
    /\ pc' = [pc EXCEPT ![w] = "poll"]
    /\ UNCHANGED <<running, jobs, obj, text, outcome>>
    /\ UNCHANGED <<parserVars, cacheVars>>

(***************************************************************************)
(* main.py: the cached synchronous endpoint                                *)
(***************************************************************************)
CacheUrls == {"u1", "u2"}
Reqs == {"r1", "r2"}

HTTPException(status, detail, inner) == Raise("HTTPException", <<status, detail, inner>>)

\* main.py get_text_from_url, lines 47-63.  The HTTPException raised inside the
\* try block for a wrong content type or an empty text is no RequestException,
\* so the "except Exception" clause catches it and re-raises it as a 500.
main_get_text_from_url(resp) ==
    IF ~resp.reached \/ resp.status >= 400
    THEN HTTPException(400, "Failed to download the file", "request failed")
    ELSE IF resp.ctype # "application/pdf"
    THEN HTTPException(500, "An error occurred while processing the PDF",
                       "URL does not point to a PDF file.")
    ELSE IF ~resp.isPdf
    THEN HTTPException(500, "An error occurred while processing the PDF", "Failed to open stream")
    ELSE IF Strip(resp.text) = <<>>
    THEN HTTPException(500, "An error occurred while processing the PDF",
                       "Could not extract text from the PDF.")
    ELSE Return(resp.text)

\* a second complete reply, with another summary
OtherReply ==
    <<"<summary>", "a", "a", "</summary>", "<methodology>", "b", "</methodology>",
      "<takeaways>", "<item>", "b", "</item>", "</takeaways>">>

MainProviderOutcomes ==
    {Raise("GoogleAPIError", "quota exceeded")}
        \cup {Return(r) : r \in {GoodReply, OtherReply, TruncatedReply}}

\* main.py get_summary_from_ai, lines 66-115, given what generate_content did
main_get_summary_from_ai(key, provided) ==
    IF ~key THEN HTTPException(500, "GOOGLE_API_KEY not configured.", "")
    ELSE IF provided.kind = "raise"
    THEN HTTPException(500, "An error occurred with the AI analysis", provided.msg)
    ELSE main_parse(provided.value)

\* line 142: AnalysisResponse(**analysis_dict, cached=False)
FreshResponse(analysis_dict) ==
    [summary |-> analysis_dict.summary, takeaways |-> analysis_dict.takeaways,
     methodology |-> analysis_dict.methodology, cached |-> FALSE]

\* mutant: the hit's response takes its methodology for its summary
CachedResponse_Swapped(cached_response) ==
    [summary |-> cached_response.methodology, takeaways |-> cached_response.takeaways,
     methodology |-> cached_response.methodology, cached |-> TRUE]

\* lines 127-134: a new response object from the stored one, cached set
CachedResponse(cached_response) ==
    [summary |-> cached_response.summary, takeaways |-> cached_response.takeaways,
     methodology |-> cached_response.methodology, cached |-> TRUE]

Content(r) == <<r.summary, r.takeaways, r.methodology>>

CacheEmpty ==
    /\ analysis_cache = [u \in CacheUrls |-> None]
    /\ rpc = [r \in Reqs |-> "idle"]
    /\ rurl = [r \in Reqs |-> "u1"]
    /\ rtext = [r \in Reqs |-> <<>>]
    /\ response = [r \in Reqs |-> None]
    /\ orig = [u \in CacheUrls |-> None]
    /\ prior = [r \in Reqs |-> None]
    /\ raced = [r \in Reqs |-> FALSE]

CacheInit == GOOGLE_API_KEY \in BOOLEAN /\ CacheEmpty
CacheIdle == GOOGLE_API_KEY = TRUE /\ CacheEmpty

\* mutant: the endpoint without the lookup of lines 125-134
Analyze_NoLookup(r, url) ==
    /\ rpc[r] = "idle"
    /\ rurl' = [rurl EXCEPT ![r] = url]
    /\ prior' = [prior EXCEPT ![r] = orig[url]]
    /\ response' = [response EXCEPT ![r] = None]
    /\ rpc' = [rpc EXCEPT ![r] = "extract"]
    /\ raced' = [raced EXCEPT ![r] = FALSE]
    /\ UNCHANGED <<GOOGLE_API_KEY, analysis_cache, rtext, orig>>
    /\ UNCHANGED <<parserVars, workerVars>>

\* analyze_paper, lines 120-137: the request arrives and the cache is looked up
Analyze(r, url) ==
    /\ rpc[r] = "idle"
    /\ rurl' = [rurl EXCEPT ![r] = url]
    /\ prior' = [prior EXCEPT ![r] = orig[url]]
    /\ IF analysis_cache[url] # None
       THEN /\ response' = [response EXCEPT ![r] = Some(Return(CachedResponse(The(analysis_cache[url]))))]
            /\ UNCHANGED rpc
       ELSE /\ response' = [response EXCEPT ![r] = None]
            /\ rpc' = [rpc EXCEPT ![r] = "extract"]
    /\ LET others == {q \in Reqs \ {r} : rpc[q] # "idle" /\ rurl[q] = url}
       IN raced' = [q \in Reqs |->
                       IF q = r THEN analysis_cache[url] = None /\ others # {}
                       ELSE raced[q] \/ (analysis_cache[url] = None /\ q \in others)]
    /\ UNCHANGED <<GOOGLE_API_KEY, analysis_cache, rtext, orig>>
    /\ UNCHANGED <<parserVars, workerVars>>

\* line 138: get_text_from_url(request_url); a failure is the request's reply
ExtractMain(r) ==
    /\ rpc[r] = "extract"
    /\ \E resp \in Responses :
         LET out == main_get_text_from_url(resp)
         IN IF out.kind = "raise"
            THEN /\ response' = [response EXCEPT ![r] = Some(out)]
                 /\ rpc' = [rpc EXCEPT ![r] = "idle"]
                 /\ UNCHANGED rtext
            ELSE /\ rtext' = [rtext EXCEPT ![r] = out.value]
                 /\ rpc' = [rpc EXCEPT ![r] = "summarize"]
                 /\ UNCHANGED response
    /\ UNCHANGED <<GOOGLE_API_KEY, analysis_cache, rurl, orig, prior, raced>>
    /\ UNCHANGED <<parserVars, workerVars>>

\* mutant: the request stores an empty result in the cache before it fails
SummarizeMain_StoreOnFailure(r) ==
    /\ rpc[r] = "summarize"
    /\ \E provided \in MainProviderOutcomes :
         LET out == main_get_summary_from_ai(GOOGLE_API_KEY, provided)
             empty == [summary |-> <<>>, takeaways |-> <<>>, methodology |-> <<>>, cached |-> FALSE]
         IN IF out.kind = "raise"
            THEN /\ response' = [response EXCEPT ![r] = Some(out)]
                 /\ analysis_cache' = [analysis_cache EXCEPT ![rurl[r]] = Some(empty)]
                 /\ UNCHANGED orig
            ELSE /\ analysis_cache' = [analysis_cache EXCEPT ![rurl[r]] = Some(FreshResponse(out.value))]
                 /\ response' = [response EXCEPT ![r] = Some(Return(FreshResponse(out.value)))]
                 /\ orig' = [orig EXCEPT ![rurl[r]] =
                                IF @ = None THEN Some(FreshResponse(out.value)) ELSE @]
    /\ rpc' = [rpc EXCEPT ![r] = "idle"]
    /\ rtext' = [rtext EXCEPT ![r] = <<>>]
    /\ UNCHANGED <<GOOGLE_API_KEY, rurl, prior, raced>>
    /\ UNCHANGED <<parserVars, workerVars>>

\* mutant: the store keeps an entry that is already there (the first write wins)
SummarizeMain_KeepFirst(r) ==
    /\ rpc[r] = "summarize"
    /\ \E provided \in MainProviderOutcomes :
         LET out == main_get_summary_from_ai(GOOGLE_API_KEY, provided)
         IN IF out.kind = "raise"
            THEN /\ response' = [response EXCEPT ![r] = Some(out)]
                 /\ UNCHANGED <<analysis_cache, orig>>
            ELSE /\ analysis_cache' = [analysis_cache EXCEPT ![rurl[r]] =
                                          IF @ = None THEN Some(FreshResponse(out.value)) ELSE @]
                 /\ response' = [response EXCEPT ![r] = Some(Return(FreshResponse(out.value)))]
                 /\ orig' = [orig EXCEPT ![rurl[r]] =
                                IF @ = None THEN Some(FreshResponse(out.value)) ELSE @]
    /\ rpc' = [rpc EXCEPT ![r] = "idle"]
    /\ rtext' = [rtext EXCEPT ![r] = <<>>]
    /\ UNCHANGED <<GOOGLE_API_KEY, rurl, prior, raced>>
    /\ UNCHANGED <<parserVars, workerVars>>

\* lines 139-149: get_summary_from_ai(paper_text), the store and the reply
SummarizeMain(r) ==
    /\ rpc[r] = "summarize"
    /\ \E provided \in MainProviderOutcomes :
         LET out == main_get_summary_from_ai(GOOGLE_API_KEY, provided)
         IN IF out.kind = "raise"
            THEN /\ response' = [response EXCEPT ![r] = Some(out)]
                 /\ UNCHANGED <<analysis_cache, orig>>
            ELSE /\ analysis_cache' = [analysis_cache EXCEPT ![rurl[r]] = Some(FreshResponse(out.value))]
                 /\ response' = [response EXCEPT ![r] = Some(Return(FreshResponse(out.value)))]
                 /\ orig' = [orig EXCEPT ![rurl[r]] =
                                IF @ = None THEN Some(FreshResponse(out.value)) ELSE @]
    /\ rpc' = [rpc EXCEPT ![r] = "idle"]
    /\ rtext' = [rtext EXCEPT ![r] = <<>>]
    /\ UNCHANGED <<GOOGLE_API_KEY, rurl, prior, raced>>
    /\ UNCHANGED <<parserVars, workerVars>>

ParserInit ==
    /\ message \in ReplySpace
    /\ parsed = None
    /\ parsedMain = None

\* worker.py get_summary_from_ai, lines 78-85, on the reply
ParseWorker ==
    /\ parsed = None
    /\ parsed' = Some(worker_parse(message))
    /\ UNCHANGED <<message, parsedMain>>
    /\ UNCHANGED <<workerVars, cacheVars>>

\* main.py get_summary_from_ai, lines 108-115, on the reply
ParseMain ==
    /\ parsedMain = None
    /\ parsedMain' = Some(main_parse(message))
    /\ UNCHANGED <<message, parsed>>
    /\ UNCHANGED <<workerVars, cacheVars>>

vars == <<message, parsed, parsedMain, running, jobs, pc, obj, text, outcome,
          GOOGLE_API_KEY, analysis_cache, rpc, rurl, rtext, response, orig, prior, raced>>

ParserIdle == message = <<>> /\ parsed = None /\ parsedMain = None

WorkerStep(w) ==
    \/ Poll(w)
    \/ Claim(w)
    \/ Refresh(w)
    \/ Extract(w)
    \/ Summarize(w)
    \/ Finish(w)
    \/ Wake(w)

Next ==
    \/ \E url \in Urls : Submit(url)
    \/ \E w \in running : Poll(w)
    \/ \E w \in running : Claim(w)
    \/ \E w \in running : Refresh(w)
    \/ \E w \in running : Extract(w)
    \/ \E w \in running : Summarize(w)
    \/ \E w \in running : Finish(w)
    \/ \E w \in running : Wake(w)

Init == WorkerInit({"w1", "w2"}) /\ ParserIdle /\ CacheIdle

\* the job table with its submitter and two worker processes polling it
Spec == Init /\ [][Next]_vars

\* the processes keep running, and every extraction and provider call returns or fails
SpecFair == Spec /\ \A w \in Workers : WF_vars(w \in running /\ WorkerStep(w))

InitThree == WorkerInit(Workers) /\ ParserIdle /\ CacheIdle

\* the same with three worker processes
SpecThree == InitThree /\ [][Next]_vars

InitSingle == WorkerInit({"w1"}) /\ ParserIdle /\ CacheIdle

\* the job table with its submitter and a single worker process
SpecSingle == InitSingle /\ [][Next]_vars

\* the single process keeps running, and every call returns or fails
SpecSingleFair == SpecSingle /\ \A w \in Workers : WF_vars(w \in running /\ WorkerStep(w))

ParserNext == ParseWorker \/ ParseMain

\* no worker process is started
WorkerIdle == WorkerInit({})

InitParser == ParserInit /\ WorkerIdle /\ CacheIdle

\* the reply parsers applied to every reply of ReplySpace
SpecParser == InitParser /\ [][ParserNext]_vars

Idle == \A q \in Reqs : rpc[q] = "idle"

\* requests one after another: a request arrives when no other is being served
CacheSeqNext ==
    \/ \E r \in Reqs, url \in CacheUrls : Idle /\ Analyze(r, url)
    \/ \E r \in Reqs : ExtractMain(r)
    \/ \E r \in Reqs : SummarizeMain(r)

InitCache == CacheInit /\ WorkerIdle /\ ParserIdle

SpecCacheSeq == InitCache /\ [][CacheSeqNext]_vars

\* requests served concurrently by the host's thread pool
CacheNext ==
    \/ \E r \in Reqs, url \in CacheUrls : Analyze(r, url)
    \/ \E r \in Reqs : ExtractMain(r)
    \/ \E r \in Reqs : SummarizeMain(r)

SpecCache == InitCache /\ [][CacheNext]_vars

(***************************************************************************)
(* Properties                                                              *)
(***************************************************************************)
JobIds == 1..Len(jobs)
ContentFields == {"title", "summary", "takeaways", "methodology"}

\* C1: a processor commits its claim only on a job that is still PENDING, so
\* no job is claimed, and run through extraction and the provider, by more
\* than one processor pass.
C1_NoDoubleClaim ==
    [][\A w \in Workers :
          (pc[w] = "claim" /\ pc'[w] = "refresh") => jobs[The(obj[w]).id].status = "PENDING"]_vars

\* C2: every committed change of a job's status is PENDING to PROCESSING or
\* PROCESSING to COMPLETED or FAILED: none skips PROCESSING, none goes back.
C2_StatusOrder ==
    [][\A j \in JobIds :
          jobs'[j].status # jobs[j].status =>
              <<jobs[j].status, jobs'[j].status>> \in
                  {<<"PENDING", "PROCESSING">>, <<"PROCESSING", "COMPLETED">>,
                   <<"PROCESSING", "FAILED">>}]_vars

\* C3: every job record is COMPLETED with all four content fields set and no
\* error message, or FAILED with an error message and no content field set,
\* or PENDING or PROCESSING with no content field and no error message set.
C3_RecordShape ==
    \A j \in JobIds :
        LET r == jobs[j]
        IN \/ /\ r.status = "COMPLETED"
              /\ \A f \in ContentFields : r[f] # None
              /\ r.error_message = None
           \/ /\ r.status = "FAILED"
              /\ r.error_message # None
              /\ \A f \in ContentFields : r[f] = None
           \/ /\ r.status \in {"PENDING", "PROCESSING"}
              /\ \A f \in ContentFields : r[f] = None
              /\ r.error_message = None

\* C4: once a job is COMPLETED or FAILED no step changes any of its fields.
C4_TerminalAbsorbing ==
    [][\A j \in JobIds : jobs[j].status \in Terminal => jobs'[j] = jobs[j]]_vars

\* C5: when a step of the try block has raised, the step that follows leaves
\* the job FAILED in the table, with the exception's message, and the processor
\* back in main, sleeping; a sleeping processor polls next.  No processor
\* crashes.
C5_FailureRecorded ==
    [][\A w \in Workers :
          /\ (pc[w] = "except" /\ pc'[w] # "except") =>
                 /\ jobs'[The(obj[w]).id].status = "FAILED"
                 /\ jobs'[The(obj[w]).id].error_message = Some(The(outcome[w]).msg)
                 /\ pc'[w] = "sleep"
          /\ (pc[w] = "sleep" /\ pc'[w] # "sleep") => pc'[w] = "poll"
          /\ pc'[w] # "crashed"]_vars

\* C6: a job that is PROCESSING is eventually COMPLETED or FAILED.
StatusOf(j) == IF j \in JobIds THEN jobs[j].status ELSE "ABSENT"

C6_ProcessingEnds ==
    \A j \in 1..MaxJobs : (StatusOf(j) = "PROCESSING") ~> (StatusOf(j) \in Terminal)

C6_Witness ==
    \E j \in JobIds :
        /\ jobs[j].status \in Terminal
        /\ \A w \in Workers : obj[w] = None

\* C7: requests served one after another: a request for a url that an earlier
\* request analysed successfully gets the summary, takeaways and methodology
\* of that first analysis, with cached true; a request that finds no earlier
\* successful analysis and succeeds gets cached false.
C7_HitReturnsOriginal ==
    \A r \in Reqs :
        \A out \in response[r] :
            out.kind = "return" =>
                IF prior[r] # None
                THEN out.value.cached /\ Content(out.value) = Content(The(prior[r]))
                ELSE ~out.value.cached

C7_Witness ==
    \E r \in Reqs :
        \E out \in response[r] :
            out.kind = "return" /\ out.value.cached /\ prior[r] # None

(***************************************************************************)
(* What a reply encloses, found by position and not by splitting           *)
(***************************************************************************)
Sections == {"title", "summary", "methodology", "takeaways"}

Positions(s, tok) == {i \in 1..Len(s) : s[i] = tok}
Nth(S, k) == CHOOSE i \in S : Cardinality({x \in S : x < i}) = k - 1

\* the first opening marker is followed by a closing one, with no marker of
\* the same section in between
WellFormedPair(s, name) ==
    /\ Contains(s, Open(name))
    /\ \E j \in (FirstIndex(s, Open(name)) + 1)..Len(s) :
          /\ s[j] = Close(name)
          /\ \A k \in (FirstIndex(s, Open(name)) + 1)..(j - 1) : s[k] \notin {Open(name), Close(name)}

\* the text between the first opening marker and the closing marker after it
Enclosed(s, name) ==
    LET i == FirstIndex(s, Open(name))
        j == CHOOSE j \in (i + 1)..Len(s) :
                 s[j] = Close(name) /\ \A k \in (i + 1)..(j - 1) : s[k] # Close(name)
    IN SubSeq(s, i + 1, j - 1)

IsItemMarker(tok) == tok \in {"<item>", "</item>"}

\* <item> and </item> alternate in the block, an opening one first
ItemsWellFormed(block) ==
    LET m == SelectSeq(block, IsItemMarker)
    IN /\ Len(m) % 2 = 0
       /\ \A k \in 1..Len(m) : m[k] = IF k % 2 = 1 THEN "<item>" ELSE "</item>"

\* the text of each <item>...</item> pair, in document order
ItemTextsOf(block) ==
    LET o == Positions(block, "<item>")
        c == Positions(block, "</item>")
    IN [k \in 1..Cardinality(o) |-> SubSeq(block, Nth(o, k) + 1, Nth(c, k) - 1)]

WellFormed(s) ==
    /\ \A n \in Sections : WellFormedPair(s, n)
    /\ ItemsWellFormed(Enclosed(s, "takeaways"))

StripAll(list) == [k \in 1..Len(list) |-> Strip(list[k])]

\* C8: a reply that lacks an opening or a closing marker of title, summary,
\* methodology or takeaways makes the parser raise: it returns no result.
C8_MissingMarkerFails ==
    (\E n \in Sections : ~Contains(message, Open(n)) \/ ~Contains(message, Close(n))) =>
        /\ \A out \in parsed : out.kind = "raise"
        /\ \A out \in parsedMain : out.kind = "raise"

\* C9 as stated: of a well-formed reply the parser returns exactly the text
\* each marker pair encloses, and one takeaway per item pair, in order, each
\* exactly the item's enclosed text.
C9_ExactEnclosedText ==
    WellFormed(message) =>
        \A out \in parsed :
            /\ out.kind = "return"
            /\ out.value.title = Enclosed(message, "title")
            /\ out.value.summary = Enclosed(message, "summary")
            /\ out.value.methodology = Enclosed(message, "methodology")
            /\ out.value.takeaways = ItemTextsOf(Enclosed(message, "takeaways"))

\* C9 as amended: of a well-formed reply the parsers return the text each
\* marker pair encloses with its leading and trailing whitespace stripped
\* (worker.py: title, summary, methodology; main.py: summary, methodology),
\* and one takeaway per item pair, in order, each the item's enclosed text
\* stripped likewise.
C9_StrippedEnclosedText ==
    WellFormed(message) =>
        /\ \A out \in parsed :
              /\ out.kind = "return"
              /\ out.value.title = Strip(Enclosed(message, "title"))
              /\ out.value.summary = Strip(Enclosed(message, "summary"))
              /\ out.value.methodology = Strip(Enclosed(message, "methodology"))
              /\ out.value.takeaways = StripAll(ItemTextsOf(Enclosed(message, "takeaways")))
        /\ \A out \in parsedMain :
              /\ out.kind = "return"
              /\ out.value.summary = Strip(Enclosed(message, "summary"))
              /\ out.value.methodology = Strip(Enclosed(message, "methodology"))
              /\ out.value.takeaways = StripAll(ItemTextsOf(Enclosed(message, "takeaways")))

C9_Witness ==
    /\ parsed # None /\ parsedMain # None
    /\ WellFormed(message)
    /\ Enclosed(message, "title") # Strip(Enclosed(message, "title"))
    /\ Len(The(parsed).value.takeaways) = 2
    /\ The(parsed).value.takeaways[1] # The(parsed).value.takeaways[2]
    /\ Positions(message, "<title>") # {FirstIndex(message, "<title>")}

\* C10, the worker's half: get_summary_from_ai, and so the provider, is not
\* called with a text that is empty once stripped.
C10_NoProviderCallWithoutContent ==
    [][\A w \in Workers :
          (pc[w] = "summarize" /\ pc'[w] # "summarize") =>
              Strip(text[w]) # <<>>]_vars


\* C11: a request that fails in extraction or summarization is answered with
\* an error that carries no result, and the step leaves the cache as it was;
\* the cache changes for a URL only in the step in which a request for that
\* URL is answered with its computed result, which is the entry stored.
C11_FailureLeavesCache ==
    [][/\ \A r \in Reqs :
            (rpc[r] \in {"extract", "summarize"} /\ rpc'[r] = "idle"
                 /\ The(response'[r]).kind = "raise")
                => /\ analysis_cache' = analysis_cache
                   /\ DOMAIN The(response'[r]) = {"kind", "exc", "msg"}
       /\ \A u \in CacheUrls :
            analysis_cache'[u] # analysis_cache[u]
                => \E r \in Reqs :
                      /\ rurl[r] = u
                      /\ rpc[r] = "summarize" /\ rpc'[r] = "idle"
                      /\ The(response'[r]).kind = "return"
                      /\ The(response'[r]).value.cached = FALSE
                      /\ analysis_cache'[u] = Some(The(response'[r]).value)]_vars

\* a request for a URL has failed, that URL has no entry, the other URL has one
C11_Witness ==
    \E r \in Reqs :
        /\ rpc[r] = "idle" /\ response[r] # None
        /\ The(response[r]).kind = "raise"
        /\ analysis_cache[rurl[r]] = None
        /\ \E u \in CacheUrls : analysis_cache[u] # None

\* the jobs this step turns PROCESSING
Claimed == {j \in DOMAIN jobs : jobs[j].status # "PROCESSING" /\ jobs'[j].status = "PROCESSING"}

\* C12: with a single processor at most one job is PROCESSING in any state.
\* A call of process_pending_job that finds a PENDING job goes on to its claim,
\* whose commit turns exactly one job, a PENDING one, PROCESSING; a call that
\* finds none returns; no other step of the call turns a job PROCESSING.
C12_OneJobPerCall ==
    /\ [](Cardinality({j \in JobIds : jobs[j].status = "PROCESSING"}) <= 1)
    /\ [][\A w \in running :
             /\ (pc[w] = "poll" /\ pc'[w] # "poll")
                    => pc'[w] = (IF PendingIds = {} THEN "sleep" ELSE "claim")
             /\ (pc[w] = "claim" /\ pc'[w] # "claim")
                    => /\ Cardinality(Claimed) = 1
                       /\ \A j \in Claimed : jobs[j].status = "PENDING"
             /\ (pc[w] # "claim" /\ pc'[w] # pc[w]) => Claimed = {}]_vars

\* the processor has claimed one of two jobs and the other one waits
C12_Witness ==
    /\ running = {"w1"}
    /\ pc["w1"] = "extract"
    /\ \E i, j \in JobIds : jobs[i].status = "PROCESSING" /\ jobs[j].status = "PENDING"

\* handler r answers in this step with a result it computed, now the cache's entry
StoresFresh(r) ==
    /\ The(response'[r]).kind = "return"
    /\ The(response'[r]).value.cached = FALSE
    /\ analysis_cache'[rurl[r]] = Some(The(response'[r]).value)

\* C13 as stated: each of two requests that missed the same URL together goes
\* from extraction to summarization and from there to an answer with cached
\* false, and its store makes its result the cache's entry.
C13_BothComputeLastWins ==
    [][\A r \in Reqs : raced[r] =>
          /\ (rpc[r] = "extract" /\ rpc'[r] # "extract") => rpc'[r] = "summarize"
          /\ (rpc[r] = "summarize" /\ rpc'[r] # "summarize") => StoresFresh(r)]_vars

\* C13, amended: each of two requests that missed the same URL together goes
\* through extraction and, if that returns, summarization, whatever the other
\* has stored meanwhile; one whose step fails is answered with the error and
\* leaves the cache as it is, one that succeeds is answered with cached false
\* and its store replaces the entry, so the cache holds the last result stored.
C13_EachComputesLastStoreWins ==
    [][\A r \in Reqs : (raced[r] /\ rpc[r] # "idle" /\ rpc'[r] # rpc[r]) =>
          \/ rpc[r] = "extract" /\ rpc'[r] = "summarize" /\ analysis_cache' = analysis_cache
          \/ /\ rpc'[r] = "idle"
             /\ The(response'[r]).kind = "raise"
             /\ analysis_cache' = analysis_cache
          \/ rpc[r] = "summarize" /\ rpc'[r] = "idle" /\ StoresFresh(r)]_vars

\* both requests missed u1 together and both are answered with cached false and
\* different results; the cache holds the second one's
C13_Witness ==
    /\ raced["r1"] /\ raced["r2"]
    /\ rpc["r1"] = "idle" /\ rpc["r2"] = "idle"
    /\ rurl["r1"] = rurl["r2"]
    /\ response["r1"] # None /\ response["r2"] # None
    /\ The(response["r1"]).kind = "return" /\ The(response["r2"]).kind = "return"
    /\ ~The(response["r1"]).value.cached /\ ~The(response["r2"]).value.cached
    /\ response["r1"] # response["r2"]
    /\ analysis_cache[rurl["r1"]] = Some(The(response["r2"]).value)
    /\ orig[rurl["r1"]] = Some(The(response["r1"]).value)

\* C14: with requests served one after another, a handler is in extraction or
\* summarization only for a URL no request has succeeded on yet; a request for
\* a URL analysed before does not go on from the lookup to the extraction, and
\* the cache's entry for a URL is stored once.
C14_NoRecomputation ==
    /\ [](\A r \in Reqs : rpc[r] \in {"extract", "summarize"} => orig[rurl[r]] = None)
    /\ [][/\ \A r \in Reqs :
               (rpc[r] = "idle" /\ rpc'[r] # "idle") => orig[rurl'[r]] = None
          /\ \A u \in CacheUrls :
               analysis_cache'[u] # analysis_cache[u] => analysis_cache[u] = None]_vars

\* after r1's request for a URL succeeded, r2's request for it is answered from
\* the cache, and the other URL has been analysed too
C14_Witness ==
    /\ Idle
    /\ rurl["r1"] = rurl["r2"]
    /\ response["r1"] # None /\ response["r2"] # None
    /\ The(response["r1"]).kind = "return" /\ ~The(response["r1"]).value.cached
    /\ The(response["r2"]).kind = "return" /\ The(response["r2"]).value.cached
    /\ \A u \in CacheUrls : analysis_cache[u] # None

C16_TakeawaysRoundTrip ==
    [][\A w \in running :
          (pc[w] = "complete" /\ pc'[w] # "complete")
              => Split(The(jobs'[The(obj[w]).id].takeaways), "|||")
                     = The(outcome[w]).value.takeaways]_vars

\* C17: a step of a processor's call of process_pending_job creates and
\* deletes no job and changes no job's id or url; it changes no field of a job
\* other than the one the call has selected, of that one it changes only the
\* status, the content fields and the error message, and the step of a call
\* that finds no PENDING job changes nothing in the table.
C17_CallFrame ==
    [][\A w \in running : pc'[w] # pc[w] =>
          /\ DOMAIN jobs' = DOMAIN jobs
          /\ \A j \in DOMAIN jobs :
                /\ jobs'[j].id = jobs[j].id
                /\ jobs'[j].url = jobs[j].url
                /\ (obj[w] = None \/ The(obj[w]).id # j) => jobs'[j] = jobs[j]
          /\ (pc[w] = "poll" /\ PendingIds = {}) => (jobs' = jobs /\ pc'[w] = "sleep")]_vars

\* the call has completed the first job and the second, submitted before the
\* call ended, is as the submitter wrote it
C17_Witness ==
    /\ running = {"w1"}
    /\ pc["w1"] = "sleep"
    /\ Len(jobs) = 2
    /\ jobs[1].status = "COMPLETED"
    /\ jobs[2] = NewJob(2, jobs[2].url)

====
